---- MODULE Spec2Model ----
(***************************************************************************)
(* SignVec (src/src/signvec.rs): a Vec of elements together with two index *)
(* sets, pos and neg, that hold the positions of the elements classified   *)
(* Sign::Plus and Sign::Minus.  Every public mutation is one action; its   *)
(* effect is computed by an operator named after the method it models.     *)
(* The index sets (fastset::Set) are modelled as mathematical sets of      *)
(* 0-based positions; vals is a 1-based TLA+ sequence, so the element at   *)
(* position i is vals[i + 1].                                              *)
(***************************************************************************)
EXTENDS Integers, Sequences, FiniteSets, TLC

\* Longest element sequence explored; also the capacity of the instance,
\* which is created by with_capacity(MaxLen) and therefore never reallocates.
MaxLen == 3

\* Longest slice handed to append / extend / extend_from_slice.
MaxOther == 2

\* Element values: a negative one, zero, and a positive one (i32).
Elems == {-1, 0, 1}

Plus == "Plus"
Minus == "Minus"
Sign == {Plus, Minus}

\* Variant of sign that classifies zero as Minus.
sign_zero_minus(x) == IF x > 0 THEN Plus ELSE Minus

\* signable!: if *self >= 0 { Sign::Plus } else { Sign::Minus }
sign(x) == IF x >= 0 THEN Plus ELSE Minus

\* The fields of the struct, the live drain view and the record of the last
\* call.
VARIABLES vals, pos, neg, drain, last

vars == <<vals, pos, neg, drain, last>>

\* The three fields of the struct as one value.
Self == [vals |-> vals, pos |-> pos, neg |-> neg]

\* Option<T>: None is the empty sequence, Some(x) is <<x>>.
None == <<>>
Some(x) == <<x>>

\* Vec::capacity of an instance built by with_capacity(MaxLen).
capacity == MaxLen

\* All sequences over S of length at most n.
SeqsUpTo(S, n) == UNION {[1..k -> S] : k \in 0..n}

------------------------------------------------------------------------------
\* std Vec primitives used by the methods (positions are 0-based).

VecRemove(v, i) == SubSeq(v, 1, i) \o SubSeq(v, i + 2, Len(v))

VecInsert(v, i, e) == SubSeq(v, 1, i) \o <<e>> \o SubSeq(v, i + 1, Len(v))

VecTruncate(v, n) == IF n < Len(v) THEN SubSeq(v, 1, n) ELSE v

VecSwapRemove(v, i) ==
    LET front == SubSeq(v, 1, Len(v) - 1)
    IN IF i = Len(v) - 1 THEN front ELSE [front EXCEPT ![i + 1] = v[Len(v)]]

\* The index sets a full pass over the sequence v computes.
PlusOf(v) == {i \in 0..(Len(v) - 1) : sign(v[i + 1]) = Plus}
MinusOf(v) == {i \in 0..(Len(v) - 1) : sign(v[i + 1]) = Minus}

\* One insertion into the index set of e's classification.
InsPos(p, e, i) == IF sign(e) = Plus THEN p \cup {i} ELSE p
InsNeg(n, e, i) == IF sign(e) = Minus THEN n \cup {i} ELSE n

\* One removal from the index set of e's classification.
RemPos(p, e, i) == IF sign(e) = Plus THEN p \ {i} ELSE p
RemNeg(n, e, i) == IF sign(e) = Minus THEN n \ {i} ELSE n

------------------------------------------------------------------------------
\* The methods.  Each returns the fields after the call and the value returned.

\* panic!(msg) before any field is written: the call fails and the instance
\* is as it was.
panic(sv, msg) ==
    [vals |-> sv.vals, pos |-> sv.pos, neg |-> sv.neg, ret |-> None,
     panic |-> msg]

with_capacity ==
    [vals |-> <<>>, pos |-> {}, neg |-> {}]

\* FromIterator<T>::from_iter: position i goes to pos or neg as item i is pushed.
RECURSIVE from_iter_loop(_, _, _)
from_iter_loop(sv, iter, i) ==
    IF i >= Len(iter)
    THEN sv
    ELSE LET item == iter[i + 1]
         IN from_iter_loop([vals |-> Append(sv.vals, item),
                            pos |-> InsPos(sv.pos, item, i),
                            neg |-> InsNeg(sv.neg, item, i)], iter, i + 1)

\* Variant of from_iter that enumerates the items from 1.
from_iter_one_based(iter) ==
    LET r == from_iter_loop([vals |-> <<>>, pos |-> {}, neg |-> {}], iter, 0)
    IN [vals |-> r.vals, pos |-> {i + 1 : i \in r.pos},
        neg |-> {i + 1 : i \in r.neg}]

from_iter(iter) == from_iter_loop([vals |-> <<>>, pos |-> {}, neg |-> {}], iter, 0)

push(sv, element) ==
    LET index == Len(sv.vals)
    IN [vals |-> Append(sv.vals, element),
        pos |-> InsPos(sv.pos, element, index),
        neg |-> InsNeg(sv.neg, element, index),
        ret |-> None]

\* Variant of pop that reads the length before the element is popped.
pop_reads_old_len(sv) ==
    IF sv.vals = <<>>
    THEN [vals |-> sv.vals, pos |-> sv.pos, neg |-> sv.neg, ret |-> None]
    ELSE LET topop == sv.vals[Len(sv.vals)]
             idx == Len(sv.vals)
         IN [vals |-> SubSeq(sv.vals, 1, Len(sv.vals) - 1),
             pos |-> RemPos(sv.pos, topop, idx),
             neg |-> RemNeg(sv.neg, topop, idx),
             ret |-> Some(topop)]

pop(sv) ==
    IF sv.vals = <<>>
    THEN [vals |-> sv.vals, pos |-> sv.pos, neg |-> sv.neg, ret |-> None]
    ELSE LET topop == sv.vals[Len(sv.vals)]
             idx == Len(sv.vals) - 1
         IN [vals |-> SubSeq(sv.vals, 1, idx),
             pos |-> RemPos(sv.pos, topop, idx),
             neg |-> RemNeg(sv.neg, topop, idx),
             ret |-> Some(topop)]

\* Variant of insert that shifts only the positions strictly after index.
insert_shift_after(sv, index, element) ==
    LET p1 == {IF idx > index THEN idx + 1 ELSE idx : idx \in sv.pos}
        n1 == {IF idx > index THEN idx + 1 ELSE idx : idx \in sv.neg}
        s1 == [vals |-> sv.vals,
               pos |-> InsPos(p1, element, index),
               neg |-> InsNeg(n1, element, index)]
    IN IF index > Len(sv.vals)
       THEN panic(s1, "insertion index is out of bounds")
       ELSE [vals |-> VecInsert(sv.vals, index, element),
             pos |-> s1.pos, neg |-> s1.neg, ret |-> None]

\* insert: both sets are rewritten and index is entered into the set of the
\* element's sign before Vec::insert checks index against the length.

insert(sv, index, element) ==
    LET p1 == {IF idx >= index THEN idx + 1 ELSE idx : idx \in sv.pos}
        n1 == {IF idx >= index THEN idx + 1 ELSE idx : idx \in sv.neg}
        s1 == [vals |-> sv.vals,
               pos |-> InsPos(p1, element, index),
               neg |-> InsNeg(n1, element, index)]
    IN IF index > Len(sv.vals)
       THEN panic(s1, "insertion index is out of bounds")
       ELSE [vals |-> VecInsert(sv.vals, index, element),
             pos |-> s1.pos, neg |-> s1.neg, ret |-> None]

\* remove: both sets are rewritten before Vec::remove checks index against
\* the length.
remove(sv, index) ==
    LET p1 == {IF idx > index THEN idx - 1 ELSE idx : idx \in sv.pos}
        n1 == {IF idx > index THEN idx - 1 ELSE idx : idx \in sv.neg}
    IN IF index >= Len(sv.vals)
       THEN panic([vals |-> sv.vals, pos |-> p1, neg |-> n1],
                  "removal index is out of bounds")
       ELSE LET removed == sv.vals[index + 1]
            IN [vals |-> VecRemove(sv.vals, index),
                pos |-> RemPos(p1, removed, index),
                neg |-> RemNeg(n1, removed, index),
                ret |-> Some(removed)]

\* Variant of swap_remove that leaves the old last position in its set.
swap_remove_keeps_last(sv, index) ==
    IF index >= Len(sv.vals)
    THEN panic(sv, "swap_remove index is out of bounds")
    ELSE
    LET removed_element == sv.vals[index + 1]
        v1 == VecSwapRemove(sv.vals, index)
        p1 == RemPos(sv.pos, removed_element, index)
        n1 == RemNeg(sv.neg, removed_element, index)
    IN IF index < Len(v1)
       THEN LET swapped == v1[index + 1]
            IN [vals |-> v1,
                pos |-> InsPos(p1, swapped, index),
                neg |-> InsNeg(n1, swapped, index),
                ret |-> Some(removed_element)]
       ELSE [vals |-> v1, pos |-> p1, neg |-> n1, ret |-> Some(removed_element)]

\* swap_remove: Vec::swap_remove is the first statement, so an index at or
\* beyond the length fails before either set is touched.
swap_remove(sv, index) ==
    IF index >= Len(sv.vals)
    THEN panic(sv, "swap_remove index is out of bounds")
    ELSE
    LET removed_element == sv.vals[index + 1]
        v1 == VecSwapRemove(sv.vals, index)
        p1 == RemPos(sv.pos, removed_element, index)
        n1 == RemNeg(sv.neg, removed_element, index)
    IN IF index < Len(v1)
       THEN LET swapped == v1[index + 1]
            IN [vals |-> v1,
                pos |-> InsPos(RemPos(p1, swapped, Len(v1)), swapped, index),
                neg |-> InsNeg(RemNeg(n1, swapped, Len(v1)), swapped, index),
                ret |-> Some(removed_element)]
       ELSE [vals |-> v1, pos |-> p1, neg |-> n1, ret |-> Some(removed_element)]

\* Variant of set_unchecked that inserts into the new set without removing
\* the position from the old one.
set_unchecked_insert_only(sv, idx, val) ==
    LET old_sign == sign(sv.vals[idx + 1])
        new_sign == sign(val)
        v1 == [sv.vals EXCEPT ![idx + 1] = val]
    IN IF old_sign # new_sign
       THEN IF new_sign = Plus
            THEN [vals |-> v1, pos |-> sv.pos \cup {idx}, neg |-> sv.neg,
                  ret |-> None]
            ELSE [vals |-> v1, pos |-> sv.pos, neg |-> sv.neg \cup {idx},
                  ret |-> None]
       ELSE [vals |-> v1, pos |-> sv.pos, neg |-> sv.neg, ret |-> None]

set_unchecked(sv, idx, val) ==
    LET old_sign == sign(sv.vals[idx + 1])
        new_sign == sign(val)
        v1 == [sv.vals EXCEPT ![idx + 1] = val]
    IN IF old_sign # new_sign
       THEN IF new_sign = Plus
            THEN [vals |-> v1, pos |-> sv.pos \cup {idx}, neg |-> sv.neg \ {idx},
                  ret |-> None]
            ELSE [vals |-> v1, pos |-> sv.pos \ {idx}, neg |-> sv.neg \cup {idx},
                  ret |-> None]
       ELSE [vals |-> v1, pos |-> sv.pos, neg |-> sv.neg, ret |-> None]

\* Variant of set that checks the index after the write to the sets.
set_checks_after_write(sv, idx, val) ==
    IF idx >= Len(sv.vals)
    THEN [vals |-> sv.vals, pos |-> InsPos(sv.pos, val, idx),
          neg |-> InsNeg(sv.neg, val, idx), ret |-> None,
          panic |-> "Index out of bounds"]
    ELSE set_unchecked(sv, idx, val)

set(sv, idx, val) ==
    IF idx >= Len(sv.vals)
    THEN panic(sv, "Index out of bounds")
    ELSE set_unchecked(sv, idx, val)

\* append: for each (index, e) insert start_len + index, then push a clone.
RECURSIVE append_loop(_, _, _, _)
append_loop(sv, other, index, start_len) ==
    IF index >= Len(other)
    THEN [vals |-> sv.vals, pos |-> sv.pos, neg |-> sv.neg, ret |-> None]
    ELSE LET e == other[index + 1]
             vals_index == start_len + index
         IN append_loop([vals |-> Append(sv.vals, e),
                         pos |-> InsPos(sv.pos, e, vals_index),
                         neg |-> InsNeg(sv.neg, e, vals_index)],
                        other, index + 1, start_len)

\* Variant of append that inserts the offset within other as the position.
append_without_start_len(sv, other) == append_loop(sv, other, 0, 0)

append(sv, other) == append_loop(sv, other, 0, Len(sv.vals))

\* extend_from_slice: extend vals first, then insert offset + i per element.
RECURSIVE extend_from_slice_loop(_, _, _, _)
extend_from_slice_loop(sv, other, i, offset) ==
    IF i >= Len(other)
    THEN [vals |-> sv.vals, pos |-> sv.pos, neg |-> sv.neg, ret |-> None]
    ELSE LET e == other[i + 1]
         IN extend_from_slice_loop([vals |-> sv.vals,
                                    pos |-> InsPos(sv.pos, e, offset + i),
                                    neg |-> InsNeg(sv.neg, e, offset + i)],
                                   other, i + 1, offset)

extend_from_slice(sv, other) ==
    extend_from_slice_loop([vals |-> sv.vals \o other, pos |-> sv.pos,
                            neg |-> sv.neg], other, 0, Len(sv.vals))

\* Extend<&T>: push the clone, then insert the index read before the push.
RECURSIVE extend_ref(_, _)
extend_ref(sv, iter) ==
    IF iter = <<>>
    THEN [vals |-> sv.vals, pos |-> sv.pos, neg |-> sv.neg, ret |-> None]
    ELSE LET item == Head(iter)
             index == Len(sv.vals)
         IN extend_ref([vals |-> Append(sv.vals, item),
                        pos |-> InsPos(sv.pos, item, index),
                        neg |-> InsNeg(sv.neg, item, index)], Tail(iter))

\* Extend<T>: insert the index, then push the item.
RECURSIVE extend(_, _)
extend(sv, iter) ==
    IF iter = <<>>
    THEN [vals |-> sv.vals, pos |-> sv.pos, neg |-> sv.neg, ret |-> None]
    ELSE LET item == Head(iter)
             index == Len(sv.vals)
         IN extend([vals |-> Append(sv.vals, item),
                    pos |-> InsPos(sv.pos, item, index),
                    neg |-> InsNeg(sv.neg, item, index)], Tail(iter))

\* extend_from_within(start..end): for i in start..end insert offset + i - start.
RECURSIVE extend_from_within_loop(_, _, _, _, _)
extend_from_within_loop(sv, i, start, end, offset) ==
    IF i >= end
    THEN [vals |-> sv.vals, pos |-> sv.pos, neg |-> sv.neg, ret |-> None]
    ELSE LET e == sv.vals[i + 1]
         IN extend_from_within_loop(
                [vals |-> sv.vals,
                 pos |-> InsPos(sv.pos, e, offset + i - start),
                 neg |-> InsNeg(sv.neg, e, offset + i - start)],
                i + 1, start, end, offset)

\* Variant of extend_from_within that inserts i - start, without the offset.
extend_from_within_without_offset(sv, start, end) ==
    IF start > end \/ end > Len(sv.vals)
    THEN panic(sv, "Invalid range for extend_from_within")
    ELSE extend_from_within_loop(
             [vals |-> sv.vals \o SubSeq(sv.vals, start + 1, end),
              pos |-> sv.pos, neg |-> sv.neg], start, start, end, 0)

extend_from_within(sv, start, end) ==
    IF start > end \/ end > Len(sv.vals)
    THEN panic(sv, "Invalid range for extend_from_within")
    ELSE extend_from_within_loop(
             [vals |-> sv.vals \o SubSeq(sv.vals, start + 1, end),
              pos |-> sv.pos, neg |-> sv.neg], start, start, end, Len(sv.vals))

\* truncate(len): each dropped position leaves the set of its element's sign.
RECURSIVE truncate_loop(_, _, _)
truncate_loop(sv, i, old_len) ==
    IF i >= old_len
    THEN sv
    ELSE LET val == sv.vals[i + 1]
         IN truncate_loop([vals |-> sv.vals,
                           pos |-> RemPos(sv.pos, val, i),
                           neg |-> RemNeg(sv.neg, val, i)], i + 1, old_len)

\* Variant of truncate whose loop starts one position after new_len.
truncate_skips_first(sv, new_len) ==
    IF new_len < Len(sv.vals)
    THEN LET r == truncate_loop(sv, new_len + 1, Len(sv.vals))
         IN [vals |-> VecTruncate(sv.vals, new_len), pos |-> r.pos,
             neg |-> r.neg, ret |-> None]
    ELSE [vals |-> sv.vals, pos |-> sv.pos, neg |-> sv.neg, ret |-> None]

truncate(sv, new_len) ==
    IF new_len < Len(sv.vals)
    THEN LET r == truncate_loop(sv, new_len, Len(sv.vals))
         IN [vals |-> VecTruncate(sv.vals, new_len), pos |-> r.pos,
             neg |-> r.neg, ret |-> None]
    ELSE [vals |-> sv.vals, pos |-> sv.pos, neg |-> sv.neg, ret |-> None]

\* The shrinking arm of resize, resize_with and set_len:
\* (new_len..old_len).for_each(|i| { pos.remove(&i); neg.remove(&i); }).
shrink_indices(S, new_len, old_len) == S \ (new_len..(old_len - 1))

resize(sv, new_len, value) ==
    LET old_len == Len(sv.vals)
    IN IF new_len > old_len
       THEN [vals |-> sv.vals \o [k \in 1..(new_len - old_len) |-> value],
             pos |-> IF sign(value) = Plus
                     THEN sv.pos \cup (old_len..(new_len - 1)) ELSE sv.pos,
             neg |-> IF sign(value) = Minus
                     THEN sv.neg \cup (old_len..(new_len - 1)) ELSE sv.neg,
             ret |-> None]
       ELSE [vals |-> VecTruncate(sv.vals, new_len),
             pos |-> shrink_indices(sv.pos, new_len, old_len),
             neg |-> shrink_indices(sv.neg, new_len, old_len),
             ret |-> None]

\* resize_with(new_len, f): f is the sequence of values successive calls
\* return; calls counts the calls of f.
RECURSIVE resize_with_loop(_, _, _, _)
resize_with_loop(sv, i, new_len, f) ==
    IF i >= new_len
    THEN [vals |-> sv.vals, pos |-> sv.pos, neg |-> sv.neg, ret |-> None,
          calls |-> sv.calls]
    ELSE LET value == Head(f)
         IN resize_with_loop([vals |-> Append(sv.vals, value),
                              pos |-> InsPos(sv.pos, value, i),
                              neg |-> InsNeg(sv.neg, value, i),
                              calls |-> sv.calls + 1],
                             i + 1, new_len, Tail(f))

\* Variant of resize_with that classifies every produced value as the first.
resize_with_first_sign(sv, new_len, f) ==
    LET old_len == Len(sv.vals)
    IN IF new_len > old_len
       THEN [vals |-> sv.vals \o SubSeq(f, 1, new_len - old_len),
             pos |-> IF sign(f[1]) = Plus
                     THEN sv.pos \cup (old_len..(new_len - 1)) ELSE sv.pos,
             neg |-> IF sign(f[1]) = Minus
                     THEN sv.neg \cup (old_len..(new_len - 1)) ELSE sv.neg,
             ret |-> None, calls |-> new_len - old_len]
       ELSE [vals |-> VecTruncate(sv.vals, new_len),
             pos |-> shrink_indices(sv.pos, new_len, old_len),
             neg |-> shrink_indices(sv.neg, new_len, old_len),
             ret |-> None, calls |-> 0]

resize_with(sv, new_len, f) ==
    LET old_len == Len(sv.vals)
    IN IF new_len > old_len
       THEN resize_with_loop([vals |-> sv.vals, pos |-> sv.pos, neg |-> sv.neg,
                              calls |-> 0], old_len, new_len, f)
       ELSE [vals |-> VecTruncate(sv.vals, new_len),
             pos |-> shrink_indices(sv.pos, new_len, old_len),
             neg |-> shrink_indices(sv.neg, new_len, old_len),
             ret |-> None, calls |-> 0]

\* set_len(new_len) with new_len <= capacity.  backing is the initialized
\* content of the slots old_len..new_len that a growing call exposes.
RECURSIVE set_len_loop(_, _, _)
set_len_loop(sv, i, new_len) ==
    IF i >= new_len
    THEN [vals |-> sv.vals, pos |-> sv.pos, neg |-> sv.neg, ret |-> None]
    ELSE LET e == sv.vals[i + 1]
         IN set_len_loop([vals |-> sv.vals, pos |-> InsPos(sv.pos, e, i),
                          neg |-> InsNeg(sv.neg, e, i)], i + 1, new_len)

\* Variant of set_len whose shrinking arm removes the positions from pos only.
set_len_shrinks_pos_only(sv, new_len, backing) ==
    LET old_len == Len(sv.vals)
    IN IF new_len > capacity
       THEN panic(sv, "new_len out of bounds")
       ELSE IF new_len > old_len
       THEN set_len_loop([vals |-> sv.vals \o backing, pos |-> sv.pos,
                          neg |-> sv.neg], old_len, new_len)
       ELSE IF new_len < old_len
            THEN [vals |-> SubSeq(sv.vals, 1, new_len),
                  pos |-> shrink_indices(sv.pos, new_len, old_len),
                  neg |-> sv.neg,
                  ret |-> None]
            ELSE [vals |-> sv.vals, pos |-> sv.pos, neg |-> sv.neg,
                  ret |-> None]

set_len(sv, new_len, backing) ==
    LET old_len == Len(sv.vals)
    IN IF new_len > capacity
       THEN panic(sv, "new_len out of bounds")
       ELSE IF new_len > old_len
       THEN set_len_loop([vals |-> sv.vals \o backing, pos |-> sv.pos,
                          neg |-> sv.neg], old_len, new_len)
       ELSE IF new_len < old_len
            THEN [vals |-> SubSeq(sv.vals, 1, new_len),
                  pos |-> shrink_indices(sv.pos, new_len, old_len),
                  neg |-> shrink_indices(sv.neg, new_len, old_len),
                  ret |-> None]
            ELSE [vals |-> sv.vals, pos |-> sv.pos, neg |-> sv.neg,
                  ret |-> None]

\* dedup: read cursor from 1, write cursor from 1; a non-duplicate that moves
\* is rewritten at write and re-indexed, a duplicate leaves both sets.
RECURSIVE dedup_loop(_, _, _)
dedup_loop(sv, read, write) ==
    IF read >= Len(sv.vals)
    THEN [vals |-> VecTruncate(sv.vals, write), pos |-> sv.pos, neg |-> sv.neg,
          ret |-> None]
    ELSE IF sv.vals[read + 1] # sv.vals[read]
         THEN IF read # write
              THEN LET e == sv.vals[read + 1]
                   IN dedup_loop(
                          [vals |-> [sv.vals EXCEPT ![write + 1] = e],
                           pos |-> InsPos(RemPos(sv.pos, e, read), e, write),
                           neg |-> InsNeg(RemNeg(sv.neg, e, read), e, write)],
                          read + 1, write + 1)
              ELSE dedup_loop(sv, read + 1, write + 1)
         ELSE dedup_loop([vals |-> sv.vals, pos |-> sv.pos \ {read},
                          neg |-> sv.neg \ {read}], read + 1, write)

\* Variant of dedup that leaves the position of a duplicate in the sets.
RECURSIVE dedup_loop_keeps_duplicates(_, _, _)
dedup_loop_keeps_duplicates(sv, read, write) ==
    IF read >= Len(sv.vals)
    THEN [vals |-> VecTruncate(sv.vals, write), pos |-> sv.pos, neg |-> sv.neg,
          ret |-> None]
    ELSE IF sv.vals[read + 1] # sv.vals[read]
         THEN IF read # write
              THEN LET e == sv.vals[read + 1]
                   IN dedup_loop_keeps_duplicates(
                          [vals |-> [sv.vals EXCEPT ![write + 1] = e],
                           pos |-> InsPos(RemPos(sv.pos, e, read), e, write),
                           neg |-> InsNeg(RemNeg(sv.neg, e, read), e, write)],
                          read + 1, write + 1)
              ELSE dedup_loop_keeps_duplicates(sv, read + 1, write + 1)
         ELSE dedup_loop_keeps_duplicates(sv, read + 1, write)

dedup_keeps_duplicates(sv) ==
    IF sv.vals = <<>>
    THEN [vals |-> sv.vals, pos |-> sv.pos, neg |-> sv.neg, ret |-> None]
    ELSE dedup_loop_keeps_duplicates(sv, 1, 1)

dedup(sv) ==
    IF sv.vals = <<>>
    THEN [vals |-> sv.vals, pos |-> sv.pos, neg |-> sv.neg, ret |-> None]
    ELSE dedup_loop(sv, 1, 1)

\* The closures handed to dedup_by.
SameBucketFns == {"eq", "same_sign", "less"}
same_bucket(f, x, y) ==
    IF f = "eq" THEN x = y
    ELSE IF f = "same_sign" THEN sign(x) = sign(y)
    ELSE x < y

\* dedup_by: for each i, every later j with same_bucket(vals[i], vals[j]) is
\* removed from vals and j is removed from both sets.
RECURSIVE dedup_by_loop(_, _, _, _, _)
dedup_by_loop(sv, f, i, j, length) ==
    IF i >= length
    THEN [vals |-> sv.vals, pos |-> sv.pos, neg |-> sv.neg, ret |-> None]
    ELSE IF j >= length
         THEN dedup_by_loop(sv, f, i + 1, i + 2, length)
         ELSE IF same_bucket(f, sv.vals[i + 1], sv.vals[j + 1])
              THEN dedup_by_loop([vals |-> VecRemove(sv.vals, j),
                                  pos |-> sv.pos \ {j}, neg |-> sv.neg \ {j}],
                                 f, i, j, length - 1)
              ELSE dedup_by_loop(sv, f, i, j + 1, length)

\* Variant of dedup_by that compares each element with its successor only.
RECURSIVE dedup_by_adjacent_loop(_, _, _)
dedup_by_adjacent_loop(sv, f, j) ==
    IF j >= Len(sv.vals)
    THEN [vals |-> sv.vals, pos |-> sv.pos, neg |-> sv.neg, ret |-> None]
    ELSE IF same_bucket(f, sv.vals[j], sv.vals[j + 1])
         THEN dedup_by_adjacent_loop([vals |-> VecRemove(sv.vals, j),
                                      pos |-> sv.pos \ {j}, neg |-> sv.neg \ {j}],
                                     f, j)
         ELSE dedup_by_adjacent_loop(sv, f, j + 1)

dedup_by_adjacent(sv, f) == dedup_by_adjacent_loop(sv, f, 1)

dedup_by(sv, f) == dedup_by_loop(sv, f, 0, 1, Len(sv.vals))

\* The closures handed to dedup_by_key.
KeyFns == {"id", "abs"}
key(f, x) == IF f = "abs" /\ x < 0 THEN 0 - x ELSE x

\* dedup_by_key: i starts at 1; an element whose key equals its predecessor's
\* is removed and i is removed from both sets, otherwise i advances.
RECURSIVE dedup_by_key_loop(_, _, _)
dedup_by_key_loop(sv, f, i) ==
    IF i >= Len(sv.vals)
    THEN [vals |-> sv.vals, pos |-> sv.pos, neg |-> sv.neg, ret |-> None]
    ELSE IF i > 0 /\ key(f, sv.vals[i]) = key(f, sv.vals[i + 1])
         THEN dedup_by_key_loop([vals |-> VecRemove(sv.vals, i),
                                 pos |-> sv.pos \ {i}, neg |-> sv.neg \ {i}],
                                f, i)
         ELSE dedup_by_key_loop(sv, f, i + 1)

\* Variant of dedup_by_key whose loop starts at i = 2.
dedup_by_key_starts_at_two(sv, f) == dedup_by_key_loop(sv, f, 2)

\* Variant of dedup_by_key that advances i after a removal as well.
RECURSIVE dedup_by_key_advancing_loop(_, _, _)
dedup_by_key_advancing_loop(sv, f, i) ==
    IF i >= Len(sv.vals)
    THEN [vals |-> sv.vals, pos |-> sv.pos, neg |-> sv.neg, ret |-> None]
    ELSE IF i > 0 /\ key(f, sv.vals[i]) = key(f, sv.vals[i + 1])
         THEN dedup_by_key_advancing_loop(
                  [vals |-> VecRemove(sv.vals, i),
                   pos |-> sv.pos \ {i}, neg |-> sv.neg \ {i}], f, i + 1)
         ELSE dedup_by_key_advancing_loop(sv, f, i + 1)

dedup_by_key_advances_always(sv, f) == dedup_by_key_advancing_loop(sv, f, 1)

dedup_by_key(sv, f) == dedup_by_key_loop(sv, f, 1)

\* The closures handed to retain: they read the element and decide.
RetainFns == {"nonneg", "negative", "nonzero"}

\* The closures handed to retain_mut: they may rewrite the element.
RetainMutFns == {"negate_keep", "negate_drop_zero", "zero_negatives"}

\* A closure maps an element to the value it leaves behind and its decision.
retain_f(f, x) ==
    IF f = "nonneg" THEN [val |-> x, keep |-> x >= 0]
    ELSE IF f = "negative" THEN [val |-> x, keep |-> x < 0]
    ELSE IF f = "nonzero" THEN [val |-> x, keep |-> x # 0]
    ELSE IF f = "negate_keep" THEN [val |-> 0 - x, keep |-> TRUE]
    ELSE IF f = "negate_drop_zero" THEN [val |-> 0 - x, keep |-> x # 0]
    ELSE [val |-> IF x < 0 THEN 0 ELSE x, keep |-> TRUE]

\* Vec::retain / Vec::retain_mut: the kept values stay in their relative order.
RECURSIVE VecRetainMut(_, _)
VecRetainMut(v, f) ==
    IF v = <<>>
    THEN <<>>
    ELSE LET r == retain_f(f, Head(v))
         IN (IF r.keep THEN <<r.val>> ELSE <<>>) \o VecRetainMut(Tail(v), f)

clear(sv) == [vals |-> <<>>, pos |-> {}, neg |-> {}, ret |-> None]

\* sync: after both sets are cleared, each position enters the set of its
\* element's classification.
RECURSIVE sync_loop(_, _)
sync_loop(sv, idx) ==
    IF idx >= Len(sv.vals)
    THEN [vals |-> sv.vals, pos |-> sv.pos, neg |-> sv.neg, ret |-> None]
    ELSE LET val == sv.vals[idx + 1]
         IN sync_loop([vals |-> sv.vals, pos |-> InsPos(sv.pos, val, idx),
                       neg |-> InsNeg(sv.neg, val, idx)], idx + 1)

\* Variant of sync that does not clear the two sets first.
sync_without_clear(sv) ==
    sync_loop([vals |-> sv.vals, pos |-> sv.pos, neg |-> sv.neg], 0)

\* Variant of sync that takes the old sets away and then skips every position
\* that the old set of the other classification tracked.
sync_trusts_other_set(sv) ==
    [vals |-> sv.vals,
     pos |-> {i \in 0..(Len(sv.vals) - 1) :
                 sign(sv.vals[i + 1]) = Plus /\ i \notin sv.neg},
     neg |-> {i \in 0..(Len(sv.vals) - 1) :
                 sign(sv.vals[i + 1]) = Minus /\ i \notin sv.pos},
     ret |-> None]

sync(sv) == sync_loop([vals |-> sv.vals, pos |-> {}, neg |-> {}], 0)

retain(sv, f) ==
    sync([vals |-> VecRetainMut(sv.vals, f), pos |-> sv.pos,
          neg |-> sv.neg])

\* Variant of retain_mut that leaves the sets as they were.
retain_mut_without_sync(sv, f) ==
    [vals |-> VecRetainMut(sv.vals, f), pos |-> sv.pos, neg |-> sv.neg,
     ret |-> None]

retain_mut(sv, f) ==
    sync([vals |-> VecRetainMut(sv.vals, f), pos |-> sv.pos,
          neg |-> sv.neg])

\* split_off(at): each tail position found in pos moves to new_pos, otherwise
\* a position removed from neg moves to new_neg; returns the new instance.
RECURSIVE split_off_loop(_, _, _, _)
split_off_loop(sv, new, at, i) ==
    IF i >= Len(new.vals)
    THEN [vals |-> sv.vals, pos |-> sv.pos, neg |-> sv.neg, ret |-> Some(new)]
    ELSE IF (at + i) \in sv.pos
         THEN split_off_loop([vals |-> sv.vals, pos |-> sv.pos \ {at + i},
                              neg |-> sv.neg],
                             [new EXCEPT !.pos = @ \cup {i}], at, i + 1)
         ELSE IF (at + i) \in sv.neg
              THEN split_off_loop([vals |-> sv.vals, pos |-> sv.pos,
                                   neg |-> sv.neg \ {at + i}],
                                  [new EXCEPT !.neg = @ \cup {i}], at, i + 1)
              ELSE split_off_loop(sv, new, at, i + 1)

\* Variant of split_off that starts moving positions at the second tail slot.
split_off_skips_first(sv, at) ==
    IF at > Len(sv.vals)
    THEN panic(sv, "split_off at index out of bounds")
    ELSE split_off_loop([vals |-> SubSeq(sv.vals, 1, at), pos |-> sv.pos,
                         neg |-> sv.neg],
                        [vals |-> SubSeq(sv.vals, at + 1, Len(sv.vals)),
                         pos |-> {}, neg |-> {}], at, 1)

split_off(sv, at) ==
    IF at > Len(sv.vals)
    THEN panic(sv, "split_off at index out of bounds")
    ELSE split_off_loop([vals |-> SubSeq(sv.vals, 1, at), pos |-> sv.pos,
                         neg |-> sv.neg],
                        [vals |-> SubSeq(sv.vals, at + 1, Len(sv.vals)),
                         pos |-> {}, neg |-> {}], at, 0)

\* Variant of SignVecDrain::next that does not remove the cursor from neg.
drain_next_keeps_neg(sv, current_index, drain_end) ==
    IF current_index >= drain_end
    THEN [vals |-> sv.vals, pos |-> sv.pos, neg |-> sv.neg, ret |-> None,
          drain_end |-> drain_end]
    ELSE LET result == sv.vals[current_index + 1]
             p1 == sv.pos \ {current_index}
             n1 == sv.neg
         IN [vals |-> VecRemove(sv.vals, current_index),
             pos |-> {IF i > current_index THEN i - 1 ELSE i : i \in p1},
             neg |-> {IF i > current_index THEN i - 1 ELSE i : i \in n1},
             ret |-> Some(result),
             drain_end |-> drain_end - 1]

\* Variant of SignVecDrain::next that shifts the later positions before it
\* removes the cursor from the sets.
drain_next_shifts_first(sv, current_index, drain_end) ==
    IF current_index >= drain_end
    THEN [vals |-> sv.vals, pos |-> sv.pos, neg |-> sv.neg, ret |-> None,
          drain_end |-> drain_end]
    ELSE LET result == sv.vals[current_index + 1]
             p1 == {IF i > current_index THEN i - 1 ELSE i : i \in sv.pos}
             n1 == {IF i > current_index THEN i - 1 ELSE i : i \in sv.neg}
         IN [vals |-> VecRemove(sv.vals, current_index),
             pos |-> p1 \ {current_index},
             neg |-> n1 \ {current_index},
             ret |-> Some(result),
             drain_end |-> drain_end - 1]

\* Variant of SignVecDrain::next that leaves drain_end as it was.
drain_next_keeps_end(sv, current_index, drain_end) ==
    IF current_index >= drain_end \/ current_index >= Len(sv.vals)
    THEN [vals |-> sv.vals, pos |-> sv.pos, neg |-> sv.neg, ret |-> None,
          drain_end |-> drain_end]
    ELSE LET result == sv.vals[current_index + 1]
             p1 == sv.pos \ {current_index}
             n1 == sv.neg \ {current_index}
         IN [vals |-> VecRemove(sv.vals, current_index),
             pos |-> {IF i > current_index THEN i - 1 ELSE i : i \in p1},
             neg |-> {IF i > current_index THEN i - 1 ELSE i : i \in n1},
             ret |-> Some(result),
             drain_end |-> drain_end]

\* SignVecDrain::next on a view with cursor current_index and bound drain_end.
drain_next(sv, current_index, drain_end) ==
    IF current_index >= drain_end
    THEN [vals |-> sv.vals, pos |-> sv.pos, neg |-> sv.neg, ret |-> None,
          drain_end |-> drain_end]
    ELSE LET result == sv.vals[current_index + 1]
             p1 == sv.pos \ {current_index}
             n1 == sv.neg \ {current_index}
         IN [vals |-> VecRemove(sv.vals, current_index),
             pos |-> {IF i > current_index THEN i - 1 ELSE i : i \in p1},
             neg |-> {IF i > current_index THEN i - 1 ELSE i : i \in n1},
             ret |-> Some(result),
             drain_end |-> drain_end - 1]

------------------------------------------------------------------------------
\* Queries.

len(sv) == Len(sv.vals)

count(sv, s) == IF s = Plus THEN Cardinality(sv.pos) ELSE Cardinality(sv.neg)

indices(sv, s) == IF s = Plus THEN sv.pos ELSE sv.neg

\* random(sign, rng): every value the draw from the sign's set can return.
random(sv, s) ==
    IF indices(sv, s) = {} THEN {None} ELSE {Some(i) : i \in indices(sv, s)}

\* values(sign), consumed to the end: one reference for each index of the
\* sign's set, read at vals_ptr.add(idx) without a bounds check.  The result
\* maps each index to the element read; a read at or beyond len() can find
\* any element.
values(sv, s) ==
    {r \in [indices(sv, s) -> Elems] :
        \A idx \in indices(sv, s) :
            idx < Len(sv.vals) => r[idx] = sv.vals[idx + 1]}

\* Comparisons.
Less == "Less"
Equal == "Equal"
Greater == "Greater"

\* Vec::cmp: the first pair of elements that differ decides; when one sequence
\* is a prefix of the other, the shorter one is Less.
RECURSIVE VecCmp(_, _)
VecCmp(a, b) ==
    IF a = <<>> /\ b = <<>> THEN Equal
    ELSE IF a = <<>> THEN Less
    ELSE IF b = <<>> THEN Greater
    ELSE IF Head(a) < Head(b) THEN Less
    ELSE IF Head(a) > Head(b) THEN Greater
    ELSE VecCmp(Tail(a), Tail(b))

\* Ord::cmp: self.vals.cmp(&other.vals).
cmp(sv, other) == VecCmp(sv.vals, other.vals)

\* PartialOrd::partial_cmp: self.vals.partial_cmp(&other.vals).
partial_cmp(sv, other) == Some(VecCmp(sv.vals, other.vals))

\* Variant of eq that compares all three fields, as a derived PartialEq does.
eq_all_fields(sv, other) ==
    sv.vals = other.vals /\ sv.pos = other.pos /\ sv.neg = other.neg

\* PartialEq::eq: self.vals.eq(&other.vals).
eq(sv, other) == sv.vals = other.vals

------------------------------------------------------------------------------
NoDrain == [active |-> FALSE]

Init ==
    /\ vals = with_capacity.vals
    /\ pos = with_capacity.pos
    /\ neg = with_capacity.neg
    /\ drain = NoDrain
    /\ last = [op |-> "with_capacity", ret |-> None, log |-> FALSE,
               args |-> <<>>, sv |-> <<>>]

\* The record of a call: its name and the value it returned and, when the
\* call log is on, its arguments and the instance it was applied to.
Entry(op, args, ret) ==
    IF last.log
    THEN [op |-> op, ret |-> ret, log |-> TRUE, args |-> args, sv |-> Self]
    ELSE [op |-> op, ret |-> ret, log |-> FALSE, args |-> <<>>, sv |-> <<>>]

\* No view borrows the instance, so a method can be called.  With the call log
\* on, the logged call is the only call made on the instance.
Idle == ~drain.active /\ (last.log => last.op = "from_iter")

\* A method call op with arguments args whose result is r.
\* Position values are explored below MaxLen only: an entry left behind by a
\* removal can otherwise be shifted upwards by insert without limit.
Call(op, args, r) ==
    /\ r.pos \cup r.neg \subseteq 0..(MaxLen - 1)
    /\ vals' = r.vals
    /\ pos' = r.pos
    /\ neg' = r.neg
    /\ last' = IF "panic" \in DOMAIN r
               THEN Entry("panic", <<op>> \o args, r.ret)
               ELSE Entry(op, args, r.ret)
    /\ UNCHANGED drain

Push ==
    /\ Idle
    /\ Len(vals) < MaxLen
    /\ \E e \in Elems : Call("push", <<e>>, push(Self, e))

Pop ==
    /\ Idle
    /\ Call("pop", <<>>, pop(Self))

Insert ==
    /\ Idle
    /\ \E index \in 0..MaxLen, e \in Elems :
          /\ index <= Len(vals) => Len(vals) < MaxLen
          /\ Call("insert", <<index, e>>, insert(Self, index, e))

Remove ==
    /\ Idle
    /\ \E index \in 0..MaxLen : Call("remove", <<index>>, remove(Self, index))

SwapRemove ==
    /\ Idle
    /\ \E index \in 0..MaxLen :
          Call("swap_remove", <<index>>, swap_remove(Self, index))

Set ==
    /\ Idle
    /\ \E idx \in 0..MaxLen, val \in Elems :
          Call("set", <<idx, val>>, set(Self, idx, val))

Append_ ==
    /\ Idle
    /\ \E other \in SeqsUpTo(Elems, MaxOther) :
          /\ Len(vals) + Len(other) <= MaxLen
          /\ Call("append", <<other>>, append(Self, other))

ExtendFromSlice ==
    /\ Idle
    /\ \E other \in SeqsUpTo(Elems, MaxOther) :
          /\ Len(vals) + Len(other) <= MaxLen
          /\ Call("extend_from_slice", <<other>>, extend_from_slice(Self, other))

ExtendRef ==
    /\ Idle
    /\ \E iter \in SeqsUpTo(Elems, MaxOther) :
          /\ Len(vals) + Len(iter) <= MaxLen
          /\ Call("extend_ref", <<iter>>, extend_ref(Self, iter))

Extend ==
    /\ Idle
    /\ \E iter \in SeqsUpTo(Elems, MaxOther) :
          /\ Len(vals) + Len(iter) <= MaxLen
          /\ Call("extend", <<iter>>, extend(Self, iter))

ExtendFromWithin ==
    /\ Idle
    /\ \E start \in 0..MaxLen, end \in 0..MaxLen :
          /\ (start <= end /\ end <= Len(vals)) =>
                Len(vals) + (end - start) <= MaxLen
          /\ Call("extend_from_within", <<start, end>>, extend_from_within(Self, start, end))

Truncate ==
    /\ Idle
    /\ \E new_len \in 0..MaxLen : Call("truncate", <<new_len>>, truncate(Self, new_len))

Resize ==
    /\ Idle
    /\ \E new_len \in 0..MaxLen, value \in Elems :
          Call("resize", <<new_len, value>>, resize(Self, new_len, value))

\* f can return a value whenever it is called: it holds one value for each
\* new position, and one value when no position is new.  The log records the
\* number of calls of f after the arguments.
ResizeWith ==
    /\ Idle
    /\ \E new_len \in 0..MaxLen :
          \E f \in [1..(IF new_len > Len(vals) THEN new_len - Len(vals) ELSE 1)
                    -> Elems] :
             LET r == resize_with(Self, new_len, f)
             IN Call("resize_with", <<new_len, f, r.calls>>, r)

\* set_len drops nothing: a slot that a logged set_len cut off still holds
\* its element, and a growing set_len that follows exposes it again.  Any
\* other exposed slot holds whatever the caller initialized it with.  The log
\* records the call that preceded after the arguments.
SetLen ==
    /\ ~drain.active
    /\ last.log => \/ last.op = "from_iter"
                   \/ last.op = "set_len" /\ last.args[3] = "from_iter"
    /\ \E new_len \in 0..(capacity + 1) :
          \E backing \in [1..(IF new_len > Len(vals) /\ new_len <= capacity
                              THEN new_len - Len(vals) ELSE 0) -> Elems] :
             /\ (last.log /\ last.op = "set_len") =>
                   \A k \in DOMAIN backing :
                      Len(vals) + k <= Len(last.sv.vals) =>
                         backing[k] = last.sv.vals[Len(vals) + k]
             /\ Call("set_len", <<new_len, backing, last.op>>,
                     set_len(Self, new_len, backing))

Dedup ==
    /\ Idle
    /\ Call("dedup", <<>>, dedup(Self))

DedupBy ==
    /\ Idle
    /\ \E f \in SameBucketFns : Call("dedup_by", <<f>>, dedup_by(Self, f))

DedupByKey ==
    /\ Idle
    /\ \E f \in KeyFns : Call("dedup_by_key", <<f>>, dedup_by_key(Self, f))

Retain ==
    /\ Idle
    /\ \E f \in RetainFns : Call("retain", <<f>>, retain(Self, f))

RetainMut ==
    /\ Idle
    /\ \E f \in RetainMutFns : Call("retain_mut", <<f>>, retain_mut(Self, f))

SplitOff ==
    /\ Idle
    /\ \E at \in 0..MaxLen : Call("split_off", <<at>>, split_off(Self, at))

\* drain(start..end): creates the view, which borrows the instance mutably.
\* yielded collects the elements the view returns when the call log is on.
Drain ==
    /\ Idle
    /\ \E start \in 0..MaxLen, end \in 0..MaxLen :
          IF start > end \/ end > Len(vals)
          THEN Call("drain", <<start, end>>,
                    panic(Self, "Drain range out of bounds"))
          ELSE /\ drain' = [active |-> TRUE, current_index |-> start,
                            drain_end |-> end, yielded |-> <<>>, done |-> FALSE]
               /\ last' = Entry("drain", <<start, end>>, None)
               /\ UNCHANGED <<vals, pos, neg>>

\* One call of next on the live view; done records that it returned None.
DrainNext ==
    /\ drain.active
    /\ LET r == drain_next(Self, drain.current_index, drain.drain_end)
       IN /\ vals' = r.vals
          /\ pos' = r.pos
          /\ neg' = r.neg
          /\ drain' = [drain EXCEPT !.drain_end = r.drain_end,
                                    !.yielded = IF last.log THEN @ \o r.ret
                                                            ELSE @,
                                    !.done = (r.ret = None)]
          /\ last' = [last EXCEPT !.ret = r.ret]

\* The view is dropped, exhausted or not; the borrow ends.
DrainDrop ==
    /\ drain.active
    /\ drain' = IF last.log THEN [drain EXCEPT !.active = FALSE] ELSE NoDrain
    /\ last' = [last EXCEPT !.ret = None]
    /\ UNCHANGED <<vals, pos, neg>>

Random ==
    /\ Idle
    /\ \E s \in Sign : \E r \in random(Self, s) :
          last' = Entry("random", <<s>>, r)
    /\ UNCHANGED <<vals, pos, neg, drain>>

Values ==
    /\ Idle
    /\ \E s \in Sign : \E r \in values(Self, s) :
          last' = Entry("values", <<s>>, r)
    /\ UNCHANGED <<vals, pos, neg, drain>>

Clear ==
    /\ Idle
    /\ Call("clear", <<>>, clear(Self))

\* sync may also be called on fields written directly and called again; the
\* log keeps the name of the call before it.
Sync ==
    /\ ~drain.active
    /\ last.log => last.op \in {"from_iter", "fields", "sync"}
    /\ Call("sync", <<last.op>>, sync(Self))

Next ==
    \/ Push
    \/ Pop
    \/ Insert
    \/ Remove
    \/ SwapRemove
    \/ Set
    \/ Append_
    \/ ExtendFromSlice
    \/ ExtendRef
    \/ Extend
    \/ ExtendFromWithin
    \/ Truncate
    \/ Resize
    \/ ResizeWith
    \/ SetLen
    \/ Dedup
    \/ DedupBy
    \/ DedupByKey
    \/ Retain
    \/ RetainMut
    \/ SplitOff
    \/ Drain
    \/ DrainNext
    \/ DrainDrop
    \/ Random
    \/ Values
    \/ Clear
    \/ Sync

\* The instance is created empty and mutated by any sequence of calls.
Spec == Init /\ [][Next]_vars

\* The instance is built from any collection of at most MaxLen elements.
InitOps ==
    /\ \E iter \in SeqsUpTo(Elems, MaxLen) :
          /\ vals = from_iter(iter).vals
          /\ pos = from_iter(iter).pos
          /\ neg = from_iter(iter).neg
          /\ last = [op |-> "from_iter", ret |-> None, log |-> TRUE,
                     args |-> <<iter>>, sv |-> <<>>]
    /\ drain = NoDrain

\* Every method applied once, with the call log on, to every instance that
\* construction can produce; a drain view is advanced until it is dropped.
SpecOps == InitOps /\ [][Next]_vars

\* The three fields are public: a caller can leave any element sequence and
\* any two sets of positions in them before it calls sync.
InitFields ==
    /\ vals \in SeqsUpTo(Elems, MaxLen)
    /\ pos \in SUBSET (0..MaxLen)
    /\ neg \in SUBSET (0..MaxLen)
    /\ drain = NoDrain
    /\ last = [op |-> "fields", ret |-> None, log |-> TRUE, args |-> <<>>,
               sv |-> <<>>]

\* sync called, and called again, on any contents of the fields.
SpecSync == InitFields /\ [][Sync]_vars

\* The instance is compared with an instance built from a collection.
Cmp ==
    /\ last.op = "fields"
    /\ \E iter \in SeqsUpTo(Elems, MaxLen) :
          LET other == from_iter(iter)
          IN last' = [op |-> "cmp",
                      ret |-> [eq |-> eq(Self, other), cmp |-> cmp(Self, other),
                               partial_cmp |-> partial_cmp(Self, other)],
                      log |-> TRUE, args |-> <<other>>, sv |-> Self]
    /\ UNCHANGED <<vals, pos, neg, drain>>

\* The fields are public: each set is what construction left or was emptied
\* by the caller.
InitCmp ==
    /\ \E iter \in SeqsUpTo(Elems, MaxLen) :
          /\ vals = from_iter(iter).vals
          /\ pos \in {from_iter(iter).pos, {}}
          /\ neg \in {from_iter(iter).neg, {}}
    /\ drain = NoDrain
    /\ last = [op |-> "fields", ret |-> None, log |-> TRUE, args |-> <<>>,
               sv |-> <<>>]

\* Any such instance compared once with any instance built from a collection.
SpecCmp == InitCmp /\ [][Cmp]_vars

------------------------------------------------------------------------------
\* Properties.

\* pos and neg are exactly the positions a full pass over the elements gives.
Consistent(sv) == sv.pos = PlusOf(sv.vals) /\ sv.neg = MinusOf(sv.vals)

\* The sequence v without the positions start..end-1.
Without(v, start, end) ==
    [i \in 1..(Len(v) - (end - start)) |->
        IF i <= start THEN v[i] ELSE v[i + (end - start)]]

\* C1: starting from an empty SignVec, after every public mutation pos and neg
\* are exactly what sync() would compute from the current element sequence.
C1_SyncedAfterEveryMutation ==
    /\ pos = sync(Self).pos
    /\ neg = sync(Self).neg

\* C2: in every state reachable from an empty SignVec,
\* count(Plus) + count(Minus) = len().
C2_CountConservation ==
    count(Self, Plus) + count(Self, Minus) = len(Self)

\* C3: remove(k) with k < len on an instance that satisfies the invariants
\* returns the element that was at k, deletes k from the index that held it,
\* decrements every tracked position greater than k, and leaves pos and neg
\* exactly classifying the shortened sequence.
C3_RemoveReindexes ==
    (last.op = "remove" /\ Consistent(last.sv)) =>
        LET k == last.args[1]
            sv == last.sv
        IN /\ last.ret = Some(sv.vals[k + 1])
           /\ vals = Without(sv.vals, k, k + 1)
           /\ pos = {IF i > k THEN i - 1 ELSE i : i \in sv.pos \ {k}}
           /\ neg = {IF i > k THEN i - 1 ELSE i : i \in sv.neg \ {k}}
           /\ Consistent(Self)

\* C4: in every reachable state and for every possible draw, random(sign, rng)
\* returns None exactly when count(sign) = 0, and otherwise an index below
\* len() whose element classifies as sign.
C4_RandomSound ==
    \A s \in Sign : \A r \in random(Self, s) :
        /\ (r = None) <=> (count(Self, s) = 0)
        /\ r # None => (r[1] < len(Self) /\ sign(vals[r[1] + 1]) = s)

\* C5: in every reachable state no index >= len() is a member of pos or neg,
\* so values(sign) never reads the backing store outside [0, len()).
C5_NoStaleIndex ==
    \A s \in Sign : \A idx \in indices(Self, s) : idx < len(Self)

\* C6: in every reachable state pos and neg are disjoint.
C6_Disjoint == pos \cap neg = {}

\* C7: set(k, v) with k < len overwrites vals[k] with v and re-evaluates only
\* position k: with the same classification neither index is edited, otherwise
\* k leaves the old classification's index and enters the new one; the
\* membership of every other position and the length are unchanged.
C7_SetFrame ==
    last.op = "set" =>
        LET k == last.args[1]
            v == last.args[2]
            sv == last.sv
            old == sign(sv.vals[k + 1])
        IN /\ Len(vals) = Len(sv.vals)
           /\ vals[k + 1] = v
           /\ \A i \in 0..(Len(vals) - 1) : i # k => vals[i + 1] = sv.vals[i + 1]
           /\ old = sign(v) => (pos = sv.pos /\ neg = sv.neg)
           /\ old # sign(v) =>
                 /\ indices(Self, old) = indices(sv, old) \ {k}
                 /\ indices(Self, sign(v)) = indices(sv, sign(v)) \cup {k}
           /\ \A i \in 0..MaxLen : i # k =>
                 /\ (i \in pos <=> i \in sv.pos)
                 /\ (i \in neg <=> i \in sv.neg)

\* A set call that changed the classification of a position in the middle.
C7_Witness ==
    /\ last.op = "set"
    /\ last.args[1] = 1
    /\ Len(vals) = 3
    /\ sign(last.sv.vals[2]) # sign(vals[2])

\* C8: insert(k, e) with k <= len on an instance that satisfies the invariants
\* increments every tracked position >= k in both indices, inserts k into the
\* index of e's classification and leaves positions < k untouched, so that
\* pos and neg exactly classify the new sequence (k = len behaves like push).
C8_InsertReindexes ==
    (last.op = "insert" /\ Consistent(last.sv)) =>
        LET k == last.args[1]
            e == last.args[2]
            sv == last.sv
        IN /\ Len(vals) = Len(sv.vals) + 1
           /\ vals[k + 1] = e
           /\ \A i \in 0..(Len(sv.vals) - 1) :
                 vals[(IF i >= k THEN i + 1 ELSE i) + 1] = sv.vals[i + 1]
           /\ \A i \in 0..(Len(sv.vals) - 1) : \A s \in Sign :
                 i \in indices(sv, s) <=>
                    (IF i >= k THEN i + 1 ELSE i) \in indices(Self, s)
           /\ k \in indices(Self, sign(e))
           /\ k \notin indices(Self, IF sign(e) = Plus THEN Minus ELSE Plus)
           /\ Consistent(Self)
           /\ k = Len(sv.vals) => Self = [vals |-> push(sv, e).vals,
                                          pos |-> push(sv, e).pos,
                                          neg |-> push(sv, e).neg]

\* An insert before two elements of different classification.
C8_Witness ==
    /\ last.op = "insert"
    /\ last.args[1] = 0
    /\ Len(vals) = 3
    /\ sign(vals[2]) # sign(vals[3])

\* C9: swap_remove(k) with k < len returns the element at k, moves the former
\* last element into slot k and shrinks the length by one; afterwards pos and
\* neg exactly classify the new sequence, for every combination of the signs
\* of the removed and the moved element and when k is the last position.
C9_SwapRemove ==
    last.op = "swap_remove" =>
        LET k == last.args[1]
            sv == last.sv
            n == Len(sv.vals)
        IN /\ last.ret = Some(sv.vals[k + 1])
           /\ Len(vals) = n - 1
           /\ k < n - 1 => vals[k + 1] = sv.vals[n]
           /\ \A i \in 0..(n - 2) : i # k => vals[i + 1] = sv.vals[i + 1]
           /\ \A i \in 0..(n - 2) : \A s \in Sign :
                 i # k => (i \in indices(Self, s) <=> i \in indices(sv, s))
           /\ (n - 1) \notin pos \cup neg
           /\ k < n - 1 => k \in indices(Self, sign(sv.vals[n]))
           /\ Consistent(Self)

\* A swap_remove of a Plus element whose slot a Minus element moved into.
C9_Witness ==
    /\ last.op = "swap_remove"
    /\ last.args[1] = 0
    /\ Len(vals) = 2
    /\ sign(last.ret[1]) = Plus
    /\ sign(vals[1]) = Minus

\* C10: drain(start..end) with start <= end <= len, consumed to exhaustion,
\* yields the elements originally at start..end-1 in that order; the remaining
\* sequence is the original without that range, and pos and neg exactly
\* classify it.  An empty range yields nothing and changes nothing.
C10_DrainToExhaustion ==
    (last.op = "drain" /\ drain.done) =>
        LET start == last.args[1]
            end == last.args[2]
            sv == last.sv
        IN /\ drain.yielded = SubSeq(sv.vals, start + 1, end)
           /\ vals = Without(sv.vals, start, end)
           /\ Consistent(Self)
           /\ start = end => (drain.yielded = <<>> /\ Self = sv)

\* A drain of two elements of different classification from the middle on.
C10_Witness ==
    /\ last.op = "drain"
    /\ drain.done
    /\ last.args = <<1, 3>>
    /\ Len(drain.yielded) = 2
    /\ sign(drain.yielded[1]) # sign(drain.yielded[2])
    /\ Len(vals) = 1

\* C11: split_off(at) with at <= len leaves the original holding elements
\* [0, at) with exactly the memberships of the positions < at, and returns a
\* new instance holding the former elements [at, len) in order, former
\* position at + i being tracked as position i under the same classification;
\* both instances satisfy the invariants (also for at = 0 and at = len).
C11_SplitOff ==
    last.op = "split_off" =>
        LET at == last.args[1]
            sv == last.sv
            new == last.ret[1]
            n == Len(sv.vals)
        IN /\ vals = [i \in 1..at |-> sv.vals[i]]
           /\ pos = {i \in sv.pos : i < at}
           /\ neg = {i \in sv.neg : i < at}
           /\ new.vals = [i \in 1..(n - at) |-> sv.vals[at + i]]
           /\ new.pos = {i \in 0..(n - at - 1) : (at + i) \in sv.pos}
           /\ new.neg = {i \in 0..(n - at - 1) : (at + i) \in sv.neg}
           /\ Consistent(Self)
           /\ Consistent(new)

\* A split in the middle whose tail holds elements of both classifications.
C11_Witness ==
    /\ last.op = "split_off"
    /\ last.args[1] = 1
    /\ Len(vals) = 1
    /\ Len(last.ret[1].vals) = 2
    /\ last.ret[1].pos = {1}
    /\ last.ret[1].neg = {0}

\* C12: from any contents of (vals, pos, neg), also inconsistent ones with
\* stale or missing entries, sync() leaves the element sequence unchanged and
\* makes pos exactly the positions classified Plus and neg exactly the
\* positions classified Minus.
C12_SyncRepairs ==
    last.op = "sync" =>
        /\ vals = last.sv.vals
        /\ pos = {i \in 0..(Len(vals) - 1) : vals[i + 1] >= 0}
        /\ neg = {i \in 0..(Len(vals) - 1) : vals[i + 1] < 0}

\* A sync on fields that held a stale entry, a misplaced entry and no entry
\* for a position.
C12_Witness ==
    /\ last.op = "sync"
    /\ last.sv.vals = <<1, -1>>
    /\ last.sv.pos = {1, 3}
    /\ last.sv.neg = {}
    /\ pos = {0}
    /\ neg = {1}

\* C13: sync() is idempotent: a second sync() in succession leaves the same
\* pos and neg as the first, and the element sequence is the same throughout.
C13_SyncIdempotent ==
    (last.op = "sync" /\ last.args = <<"sync">>) =>
        /\ pos = last.sv.pos
        /\ neg = last.sv.neg
        /\ vals = last.sv.vals

\* A second sync in succession on an instance with both classifications.
C13_Witness ==
    /\ last.op = "sync"
    /\ last.args = <<"sync">>
    /\ vals = <<-1, 0, 1>>
    /\ pos = {1, 2}
    /\ neg = {0}

\* C14: after dedup_by(pred) or dedup_by_key(key) on an instance that
\* satisfies the invariants, pos and neg exactly classify the resulting
\* sequence and no index >= the new length remains.
C14_DedupByConsistent ==
    (last.op \in {"dedup_by", "dedup_by_key"} /\ Consistent(last.sv)) =>
        /\ Consistent(Self)
        /\ \A i \in pos \cup neg : i < Len(vals)

\* The 1-based positions of v that start a run of consecutive equal elements.
RunStarts(v) == {i \in 1..Len(v) : i = 1 \/ v[i] # v[i - 1]}

\* The positions of K in increasing order.
Ascending(K) ==
    CHOOSE f \in [1..Cardinality(K) -> K] :
        \A a, b \in 1..Cardinality(K) : a < b => f[a] < f[b]

\* The survivors of dedup on v that end at an earlier position: r is the old
\* and w the new 0-based position.
Moved(v) ==
    LET f == Ascending(RunStarts(v))
    IN {[r |-> f[j] - 1, w |-> j - 1] : j \in {k \in DOMAIN f : f[k] # k}}

\* dedup collapses every run to its first element and pos and neg exactly
\* classify the compacted sequence.
DedupCollapses ==
    LET v == last.sv.vals
        f == Ascending(RunStarts(v))
    IN /\ vals = [j \in 1..Cardinality(RunStarts(v)) |-> v[f[j]]]
       /\ Consistent(Self)

\* C15 as stated: dedup() collapses every maximal run of consecutive equal
\* elements to its first element, pos and neg exactly classify the compacted
\* sequence, a survivor that moved from r to w is tracked at w and not at r,
\* and the position of every removed duplicate is in neither index.
C15_DedupAsStated ==
    last.op = "dedup" =>
        LET v == last.sv.vals
        IN /\ DedupCollapses
           /\ \A m \in Moved(v) :
                 /\ m.w \in indices(Self, sign(v[m.r + 1]))
                 /\ m.r \notin indices(Self, sign(v[m.r + 1]))
           /\ \A d \in 1..Len(v) :
                 d \notin RunStarts(v) => (d - 1) \notin pos \cup neg

\* C15 amended: dedup() collapses every maximal run of consecutive equal
\* elements to its first element, pos and neg exactly classify the compacted
\* sequence, a survivor that moved from r to w is tracked at w, and no
\* position at or beyond the new length is in either index; an old position
\* below the new length is tracked under the classification of the survivor
\* that now occupies it.
C15_DedupAmended ==
    last.op = "dedup" =>
        LET v == last.sv.vals
        IN /\ DedupCollapses
           /\ \A m \in Moved(v) : m.w \in indices(Self, sign(v[m.r + 1]))
           /\ \A i \in pos \cup neg : i < Len(vals)
           /\ \A i \in 0..(Len(vals) - 1) : i \in indices(Self, sign(vals[i + 1]))

\* A dedup that moved a survivor into the position of a removed duplicate.
C15_Witness ==
    /\ last.op = "dedup"
    /\ last.sv.vals = <<0, 0, -1>>
    /\ vals = <<0, -1>>
    /\ neg = {1}

\* C16: retain(f) and retain_mut(f) leave exactly the elements for which f
\* returned true (as f left them), in their original relative order, and
\* afterwards pos and neg are what a full resynchronization of that sequence
\* gives, also when the predicate of retain_mut changed the sign of an element.
C16_Retain ==
    last.op \in {"retain", "retain_mut"} =>
        LET v == last.sv.vals
            f == last.args[1]
            K == {i \in 1..Len(v) : retain_f(f, v[i]).keep}
            k == Ascending(K)
        IN /\ vals = [j \in 1..Cardinality(K) |-> retain_f(f, v[k[j]]).val]
           /\ last.op = "retain" => \A j \in 1..Len(vals) : vals[j] = v[k[j]]
           /\ pos = {i \in 0..(Len(vals) - 1) : vals[i + 1] >= 0}
           /\ neg = {i \in 0..(Len(vals) - 1) : vals[i + 1] < 0}

\* A retain_mut whose predicate dropped one element and changed the sign of
\* the two it kept.
C16_Witness ==
    /\ last.op = "retain_mut"
    /\ last.args = <<"negate_drop_zero">>
    /\ last.sv.vals = <<1, 0, -1>>
    /\ vals = <<-1, 1>>
    /\ pos = {1}
    /\ neg = {0}

\* C17: constructing a SignVec from any finite collection yields an instance
\* whose element sequence equals the input in order and in which position i is
\* in pos iff input[i] classifies Plus and in neg iff input[i] classifies
\* Minus; no other position is in an index.
C17_FromCollection ==
    last.op = "from_iter" =>
        LET input == last.args[1]
        IN /\ vals = input
           /\ \A i \in 0..(Len(input) - 1) :
                 /\ i \in pos <=> input[i + 1] >= 0
                 /\ i \in neg <=> input[i + 1] < 0
           /\ pos \cup neg \subseteq 0..(Len(input) - 1)

\* An instance built from a collection that holds a positive, a negative and
\* a zero element.
C17_Witness ==
    /\ last.op = "from_iter"
    /\ last.args = << <<1, -1, 0>> >>
    /\ vals = <<1, -1, 0>>
    /\ pos = {0, 2}
    /\ neg = {1}

\* The elements a push, append, extend_from_slice or extend call appends.
Appended == IF last.op = "push" THEN <<last.args[1]>> ELSE last.args[1]

\* C18: push(e) inserts position old_len into the index of e's classification;
\* append, extend_from_slice and extend of k elements insert position
\* old_len + j into the index of the j-th appended element's classification
\* (0 <= j < k); the elements and the index membership of all positions
\* below old_len are unchanged.
C18_AppendFrame ==
    last.op \in {"push", "append", "extend_from_slice", "extend", "extend_ref"} =>
        LET sv == last.sv
            old_len == Len(sv.vals)
            k == Len(Appended)
        IN /\ Len(vals) = old_len + k
           /\ \A j \in 0..(k - 1) :
                 /\ vals[old_len + j + 1] = Appended[j + 1]
                 /\ (old_len + j) \in (IF Appended[j + 1] >= 0 THEN pos ELSE neg)
           /\ \A i \in 0..(old_len - 1) :
                 /\ vals[i + 1] = sv.vals[i + 1]
                 /\ i \in pos <=> i \in sv.pos
                 /\ i \in neg <=> i \in sv.neg

\* An append of two elements of different classification to a one-element
\* instance.
C18_Witness ==
    /\ last.op = "append"
    /\ last.sv = [vals |-> <<0>>, pos |-> {0}, neg |-> {}]
    /\ last.args = << <<-1, 1>> >>
    /\ vals = <<0, -1, 1>>
    /\ pos = {0, 2}
    /\ neg = {1}

\* C19: pop() on a non-empty SignVec returns the last element and removes
\* position len - 1 from the index of that element's classification, leaving
\* all other memberships unchanged; pop() on an empty SignVec returns None and
\* changes nothing.
C19_Pop ==
    last.op = "pop" =>
        LET sv == last.sv
            n == Len(sv.vals)
        IN IF n = 0
           THEN last.ret = None /\ Self = sv
           ELSE /\ last.ret = Some(sv.vals[n])
                /\ vals = [i \in 1..(n - 1) |-> sv.vals[i]]
                /\ pos = IF sv.vals[n] >= 0 THEN sv.pos \ {n - 1} ELSE sv.pos
                /\ neg = IF sv.vals[n] < 0 THEN sv.neg \ {n - 1} ELSE sv.neg
                /\ (n - 1) \notin pos \cup neg

\* A pop that returned a negative last element and left the positive one.
C19_Witness ==
    /\ last.op = "pop"
    /\ last.sv = [vals |-> <<1, -1>>, pos |-> {0}, neg |-> {1}]
    /\ last.ret = Some(-1)
    /\ vals = <<1>>
    /\ pos = {0}
    /\ neg = {}

\* C20: truncate(n) with n < len drops the tail elements and removes every
\* position >= n from both indices while keeping the membership of every
\* position < n; truncate(n) with n >= len changes nothing.  resize(n, v) and
\* resize_with(n, f) with n <= len have exactly the effect of truncate(n), and
\* resize_with does not call f.
C20_Truncate ==
    LET sv == last.sv
        n == last.args[1]
    IN /\ (last.op = "truncate" /\ n >= Len(sv.vals)) => Self = sv
       /\ (\/ last.op = "truncate" /\ n < Len(sv.vals)
           \/ last.op \in {"resize", "resize_with"} /\ n <= Len(sv.vals)) =>
              /\ vals = [i \in 1..n |-> sv.vals[i]]
              /\ pos = {i \in sv.pos : i < n}
              /\ neg = {i \in sv.neg : i < n}
              /\ \A i \in pos \cup neg : i < n
              /\ Self = [vals |-> truncate(sv, n).vals, pos |-> truncate(sv, n).pos,
                         neg |-> truncate(sv, n).neg]
       /\ (last.op = "resize_with" /\ n <= Len(sv.vals)) => last.args[3] = 0

\* A truncate that dropped a positive and a negative tail element.
C20_Witness ==
    /\ last.op = "truncate"
    /\ last.args = <<1>>
    /\ last.sv = [vals |-> <<-1, 1, -1>>, pos |-> {1}, neg |-> {0, 2}]
    /\ vals = <<-1>>
    /\ pos = {}
    /\ neg = {0}

\* C21: resize(n, v) with n > len appends n - len copies of v and inserts
\* every position in [len, n) into the index of v's classification;
\* resize_with(n, f) with n > len classifies each produced value individually;
\* existing memberships are unchanged and the invariants hold afterwards.
C21_ResizeGrows ==
    (last.op \in {"resize", "resize_with"} /\ last.args[1] > Len(last.sv.vals)) =>
        LET sv == last.sv
            n == last.args[1]
            old_len == Len(sv.vals)
            produced == IF last.op = "resize"
                        THEN [k \in 1..(n - old_len) |-> last.args[2]]
                        ELSE last.args[2]
        IN /\ vals = sv.vals \o produced
           /\ \A i \in old_len..(n - 1) :
                 /\ i \in pos <=> produced[i - old_len + 1] >= 0
                 /\ i \in neg <=> produced[i - old_len + 1] < 0
           /\ \A i \in 0..(old_len - 1) :
                 /\ i \in pos <=> i \in sv.pos
                 /\ i \in neg <=> i \in sv.neg
           /\ Consistent(Self)
           /\ last.op = "resize_with" => last.args[3] = n - old_len

\* A resize_with whose closure produced a positive and then a negative value.
C21_Witness ==
    /\ last.op = "resize_with"
    /\ last.sv = [vals |-> <<-1>>, pos |-> {}, neg |-> {0}]
    /\ last.args = <<3, <<1, -1>>, 2>>
    /\ vals = <<-1, 1, -1>>
    /\ pos = {1}
    /\ neg = {0, 2}

C23_ExtendFromWithin ==
    last.op = "extend_from_within" =>
        LET sv == last.sv
            start == last.args[1]
            end == last.args[2]
            old_len == Len(sv.vals)
        IN /\ Len(vals) = old_len + (end - start)
           /\ \A i \in 0..(old_len - 1) : vals[i + 1] = sv.vals[i + 1]
           /\ \A i \in start..(end - 1) :
                 /\ vals[old_len + (i - start) + 1] = sv.vals[i + 1]
                 /\ (old_len + (i - start)) \in
                       (IF sv.vals[i + 1] >= 0 THEN pos ELSE neg)
           /\ pos \cup neg = sv.pos \cup sv.neg \cup
                             {old_len + (i - start) : i \in start..(end - 1)}
           /\ pos = {i \in 0..(Len(vals) - 1) : vals[i + 1] >= 0}
           /\ neg = {i \in 0..(Len(vals) - 1) : vals[i + 1] < 0}

\* An extend_from_within over a range that starts at 1.
C23_Witness ==
    /\ last.op = "extend_from_within"
    /\ last.args = <<1, 2>>
    /\ last.sv = [vals |-> <<1, -1>>, pos |-> {0}, neg |-> {1}]
    /\ vals = <<1, -1, -1>>
    /\ pos = {0}
    /\ neg = {1, 2}

\* C24: in every reachable state values(sign), consumed to the end, yields
\* exactly count(sign) references: one for each position in the sign's index,
\* each to an element of the sequence that classifies as sign, and every
\* element of that classification in the sequence is yielded exactly once.
C24_ValuesExact ==
    \A s \in Sign : \A r \in values(Self, s) :
        /\ Cardinality(DOMAIN r) = count(Self, s)
        /\ \A idx \in DOMAIN r :
              /\ idx < len(Self)
              /\ r[idx] = vals[idx + 1]
              /\ sign(r[idx]) = s
        /\ \A i \in 0..(len(Self) - 1) : sign(vals[i + 1]) = s => i \in DOMAIN r

\* C25: each checked entry point rejects an out-of-bounds argument with a
\* failure and leaves vals, pos and neg exactly as before the call:
\* set(idx, v) with idx >= len; drain(range) and extend_from_within(range)
\* with start > end or end > len; split_off(at) with at > len; set_len(n) with
\* n > capacity.  A call that did not fail had its arguments in bounds.
C25_RejectsOutOfBounds ==
    LET sv == last.sv
        n == Len(sv.vals)
    IN /\ (/\ last.op = "panic"
           /\ last.args[1] \in {"set", "drain", "extend_from_within",
                                "split_off", "set_len"}) => Self = sv
       /\ last.op = "set" => last.args[1] < n
       /\ last.op \in {"drain", "extend_from_within"} =>
             (last.args[1] <= last.args[2] /\ last.args[2] <= n)
       /\ last.op = "split_off" => last.args[1] <= n
       /\ last.op = "set_len" => last.args[1] <= capacity

\* A set at an index beyond the length that failed.
C25_Witness ==
    /\ last.op = "panic"
    /\ last.args = <<"set", 2, -1>>
    /\ vals = <<1, -1>>
    /\ pos = {0}
    /\ neg = {1}

\* C26: if a drain view over [start, end) is advanced k times with
\* 0 <= k < end - start and then dropped, the parent is left consistent
\* without further cleanup: its sequence is the original with exactly the k
\* elements originally at start..start+k-1 removed (the undrained elements of
\* the range remain), and pos and neg exactly classify that sequence.
C26_DrainDroppedEarly ==
    (/\ last.op = "drain"
     /\ ~drain.active
     /\ Len(drain.yielded) < last.args[2] - last.args[1]) =>
        LET start == last.args[1]
            sv == last.sv
            k == Len(drain.yielded)
        IN /\ drain.yielded = SubSeq(sv.vals, start + 1, start + k)
           /\ vals = Without(sv.vals, start, start + k)
           /\ Len(vals) = Len(sv.vals) - k
           /\ pos = {i \in 0..(Len(vals) - 1) : vals[i + 1] >= 0}
           /\ neg = {i \in 0..(Len(vals) - 1) : vals[i + 1] < 0}

\* A view over [0, 2) dropped after one advance: the second element of the
\* range, of the same classification as the first, remains.
C26_Witness ==
    /\ last.op = "drain"
    /\ ~drain.active
    /\ last.args = <<0, 2>>
    /\ last.sv.vals = <<-1, -1, 1>>
    /\ drain.yielded = <<-1>>
    /\ vals = <<-1, 1>>
    /\ pos = {1}
    /\ neg = {0}

\* a precedes b in the lexicographic order of sequences.
LexLess(a, b) ==
    \E k \in 0..Len(a) :
        /\ k <= Len(b)
        /\ \A i \in 1..k : a[i] = b[i]
        /\ \/ k = Len(a) /\ k < Len(b)
           \/ k < Len(a) /\ k < Len(b) /\ a[k + 1] < b[k + 1]

\* C27: equality and ordering of two SignVec instances depend only on their
\* element sequences: two instances with equal element sequences compare
\* equal (and Ordering::Equal) even when their pos/neg contents differ, and
\* two instances with different sequences compare by the lexicographic order
\* of the sequences.
C27_CompareBySequence ==
    last.op = "cmp" =>
        LET a == last.sv.vals
            b == last.args[1].vals
            r == last.ret
        IN /\ a = b => (r.eq /\ r.cmp = Equal)
           /\ a # b => /\ ~r.eq
                       /\ r.cmp = IF LexLess(a, b) THEN Less ELSE Greater
                       /\ r.cmp = Greater => LexLess(b, a)
           /\ r.partial_cmp = Some(r.cmp)

\* Two instances with the same elements and different sets compared equal.
C27_Witness ==
    /\ last.op = "cmp"
    /\ vals = <<1, -1>>
    /\ pos = {}
    /\ neg = {1}
    /\ last.args[1] = [vals |-> <<1, -1>>, pos |-> {0}, neg |-> {1}]
    /\ last.ret.eq
    /\ last.ret.cmp = Equal

\* One call of next on a live view: the step from a state with a live view to
\* a state with a live view.
AdvanceStep ==
    (drain.active /\ drain'.active) =>
        IF drain.current_index < drain.drain_end
        THEN /\ last'.ret = Some(vals[drain.current_index + 1])
             /\ vals' = Without(vals, drain.current_index, drain.current_index + 1)
             /\ Len(vals') = Len(vals) - 1
             /\ drain'.current_index = drain.current_index
             /\ drain'.drain_end = drain.drain_end - 1
        ELSE /\ last'.ret = None
             /\ <<vals, pos, neg>>' = <<vals, pos, neg>>
             /\ drain'.current_index = drain.current_index
             /\ drain'.drain_end = drain.drain_end

\* A view created over [start, end) has returned Some at most end - start
\* times, the bound has shrunk by that number, and None is returned only
\* after end - start elements.
AdvanceCount ==
    last.op = "drain" =>
        LET span == last.args[2] - last.args[1]
        IN /\ Len(drain.yielded) <= span
           /\ drain.current_index = last.args[1]
           /\ drain.drain_end - drain.current_index = span - Len(drain.yielded)
           /\ Len(vals) = Len(last.sv.vals) - Len(drain.yielded)
           /\ drain.done => Len(drain.yielded) = span

\* C28: drain view state machine: while current_index < drain_end, each
\* advance removes the element at current_index, leaves current_index
\* unchanged, and decrements both drain_end and the parent's length by exactly
\* one; a view created over [start, end) returns Some exactly end - start
\* times, then is exhausted and returns None on every further call without
\* removing anything more.
C28_DrainStateMachine == [][AdvanceStep]_vars /\ []AdvanceCount

\* A view over [0, 2) that returned two elements and then None.
C28_Witness ==
    /\ last.op = "drain"
    /\ drain.active
    /\ drain.done
    /\ last.args = <<0, 2>>
    /\ Len(drain.yielded) = 2
    /\ drain.current_index = 0
    /\ drain.drain_end = 0
    /\ Len(vals) = 1

\* C29: one advance step of a drain view with cursor c applies the remove-at
\* repair policy: starting from the same consistent pre-state, the step yields
\* the same element and leaves (vals, pos, neg) in the same state as calling
\* remove(c).
C29_AdvanceIsRemove ==
    (last.op = "drain" /\ Len(drain.yielded) = 1 /\ Consistent(last.sv)) =>
        LET c == last.args[1]
            r == remove(last.sv, c)
        IN /\ Some(drain.yielded[1]) = r.ret
           /\ vals = r.vals
           /\ pos = r.pos
           /\ neg = r.neg

\* The 1-based positions among the first n of v whose element matches no kept
\* earlier element under the predicate f.
RECURSIVE KeptUpTo(_, _, _)
KeptUpTo(v, f, n) ==
    IF n = 0
    THEN {}
    ELSE LET K == KeptUpTo(v, f, n - 1)
         IN IF \E k \in K : same_bucket(f, v[k], v[n]) THEN K ELSE K \cup {n}

\* C30: dedup_by(pred) compares pairwise, not only adjacent elements: for a
\* pure predicate the resulting sequence keeps the elements that match no kept
\* earlier element, in original order, so that afterwards no two positions
\* i < j satisfy pred(vals[i], vals[j]).
C30_DedupByPairwise ==
    last.op = "dedup_by" =>
        LET v == last.sv.vals
            f == last.args[1]
            K == KeptUpTo(v, f, Len(v))
            k == Ascending(K)
        IN /\ vals = [j \in 1..Cardinality(K) |-> v[k[j]]]
           /\ \A i, j \in 1..Len(vals) :
                 i < j => ~same_bucket(f, vals[i], vals[j])

\* A dedup_by with equality that removed an element equal to one that is not
\* its neighbour.
C30_Witness ==
    /\ last.op = "dedup_by"
    /\ last.args = <<"eq">>
    /\ last.sv.vals = <<1, -1, 1>>
    /\ vals = <<1, -1>>

\* The 1-based positions of v that start a run of consecutive elements of
\* equal key under f.
KeyRunStarts(v, f) ==
    {i \in 1..Len(v) : i = 1 \/ key(f, v[i]) # key(f, v[i - 1])}

\* C31: dedup_by_key(key) removes an element exactly when its key equals the
\* key of the element immediately before it in the surviving sequence: each
\* maximal run of consecutive equal-key elements is collapsed to its first
\* element, and elements with equal keys that are separated by a different
\* key are all kept.
C31_DedupByKeyRuns ==
    last.op = "dedup_by_key" =>
        LET v == last.sv.vals
            f == last.args[1]
            K == KeyRunStarts(v, f)
            k == Ascending(K)
        IN vals = [j \in 1..Cardinality(K) |-> v[k[j]]]

\* A dedup_by_key by absolute value that collapsed a run of two elements of
\* equal key and different sign.
C31_Witness ==
    /\ last.op = "dedup_by_key"
    /\ last.args = <<"abs">>
    /\ last.sv.vals = <<1, -1, 0>>
    /\ vals = <<1, 0>>

\* C32 as stated: dedup_by_key is a pairwise and not strictly adjacent
\* comparison: after dedup_by_key(key) no two remaining elements, adjacent or
\* not, have equal keys.
C32_DedupByKeyPairwise ==
    last.op = "dedup_by_key" =>
        \A i, j \in 1..Len(vals) :
            i < j => key(last.args[1], vals[i]) # key(last.args[1], vals[j])

\* C32 amended: dedup_by_key, unlike dedup_by, compares adjacent elements
\* only: after dedup_by_key(key) no two adjacent remaining elements have equal
\* keys; remaining elements that are not adjacent can have equal keys.
C32_DedupByKeyAdjacent ==
    last.op = "dedup_by_key" =>
        \A i \in 1..(Len(vals) - 1) :
            key(last.args[1], vals[i]) # key(last.args[1], vals[i + 1])

\* A dedup_by_key after which two elements that are not adjacent have equal
\* keys.
C32_Witness ==
    /\ last.op = "dedup_by_key"
    /\ last.args = <<"abs">>
    /\ last.sv.vals = <<1, 0, -1>>
    /\ vals = <<1, 0, -1>>

\* C33: the built-in classification of signed integers maps a value to Plus
\* exactly when it is >= 0 and to Minus otherwise: a pushed element enters pos
\* exactly when it is >= 0 and neg otherwise; in particular zero is classified
\* Plus, so resize(n, 0) grows count(Plus) and never count(Minus).
C33_ZeroIsPlus ==
    /\ last.op = "push" =>
          LET e == last.args[1]
              index == Len(last.sv.vals)
          IN /\ index \in pos <=> e >= 0
             /\ index \in neg <=> e < 0
    /\ (last.op = "resize" /\ last.args[1] > Len(last.sv.vals)) =>
          LET sv == last.sv
              added == last.args[1] - Len(sv.vals)
              value == last.args[2]
          IN /\ count(Self, Plus) =
                   count(sv, Plus) + (IF value >= 0 THEN added ELSE 0)
             /\ count(Self, Minus) =
                   count(sv, Minus) + (IF value < 0 THEN added ELSE 0)
             /\ value = 0 => (neg = sv.neg /\ pos # sv.pos)

\* A resize with zero that added two positions to pos and none to neg.
C33_Witness ==
    /\ last.op = "resize"
    /\ last.args = <<3, 0>>
    /\ last.sv = [vals |-> <<-1>>, pos |-> {}, neg |-> {0}]
    /\ vals = <<-1, 0, 0>>
    /\ pos = {1, 2}
    /\ neg = {0}

\* C34: insert(index, e) with index > len fails and leaves vals, pos and neg
\* exactly as before the call; remove(index) and swap_remove(index) with
\* index >= len fail and leave the sequence and the membership of pos and neg
\* unchanged.  A call that did not fail had its index in bounds.
C34_IndexedFailuresKeepState ==
    LET sv == last.sv
        n == Len(sv.vals)
    IN /\ (/\ last.op = "panic"
           /\ last.args[1] \in {"insert", "remove", "swap_remove"}) => Self = sv
       /\ last.op = "insert" => last.args[1] <= n
       /\ last.op \in {"remove", "swap_remove"} => last.args[1] < n

\* C35: round trip insert/remove: on a consistent instance, insert(k, e) with
\* k <= len followed by remove(k) returns e and restores the element sequence
\* and the membership of pos and neg to what they were before the insert.
C35_InsertRemoveRoundTrip ==
    (last.op = "insert" /\ Consistent(last.sv)) =>
        LET k == last.args[1]
            e == last.args[2]
            r == remove(Self, k)
        IN /\ r.ret = Some(e)
           /\ r.vals = last.sv.vals
           /\ r.pos = last.sv.pos
           /\ r.neg = last.sv.neg

\* C36: round trip split/append: on a consistent instance and for at <= len,
\* t = split_off(at) followed by append of t's elements restores the original
\* element sequence and exactly the original membership of pos and neg.
C36_SplitAppendRoundTrip ==
    (last.op = "split_off" /\ Consistent(last.sv)) =>
        LET t == last.ret[1]
            r == append(Self, t.vals)
        IN /\ r.vals = last.sv.vals
           /\ r.pos = last.sv.pos
           /\ r.neg = last.sv.neg

\* A split in the middle whose tail holds a Plus and a Minus element.
C36_Witness ==
    /\ last.op = "split_off"
    /\ last.args[1] = 1
    /\ Len(vals) = 1
    /\ Len(last.ret[1].vals) = 2
    /\ last.ret[1].pos # {}
    /\ last.ret[1].neg # {}
    /\ append(Self, last.ret[1].vals).vals = last.sv.vals

====
